---- MODULE Spec2Model ----
(***************************************************************************)
(* A model of manage-backups/manage_backups.py: one run of main(), which   *)
(* creates the daily, weekly and monthly archives that are due and then    *)
(* deletes the archives past their retention window.                       *)
(*                                                                         *)
(* Time is counted in whole seconds.  A datetime is a number of seconds,   *)
(* a timedelta a (possibly negative) number of seconds.  An archive is a   *)
(* record [name, mtime]; name is the file name as a sequence of tokens.    *)
(***************************************************************************)
EXTENDS Integers, Sequences, FiniteSets, TLC

\* ------------------------------------------------------------------ bounds
\* The clock when main() starts.
Now0 == 6000000
\* How many archives exist, over the three tiers, when main() starts.
MaxFiles == 2
\* How many seconds the clock may advance while main() runs.
MaxTicks == 1
\* How many clock readings, beyond the first, get_new_backup_filename is called at.
MaxStamps == 40
\* How many archives a tier holds when main() starts, where each tier is drawn
\* on its own.
MaxPerTier == 1

None == "None"

\* BACKUPS_DAILY, BACKUPS_WEEKLY, BACKUPS_MONTHLY, in the order main handles them.
Tiers == <<"daily", "weekly", "monthly">>
TierSet == {Tiers[i] : i \in 1..3}

\* ------------------------------------------------------- datetime.timedelta
timedelta(weeks, days, minutes) == weeks * 604800 + days * 86400 + minutes * 60

Abs(x) == IF x < 0 THEN -x ELSE x

\* ------------------------------------------------------------ BackupFile
is_older_than_dt_inclusive(mtime, dt) == mtime <= dt

is_older_than_dt(mtime, dt) == mtime < dt

is_older_than_delta_signed(mtime, nowv, delta) == is_older_than_dt(mtime, nowv - delta)

is_older_than_delta(mtime, nowv, delta) == is_older_than_dt(mtime, nowv - Abs(delta))

\* ----------------------------------------------------- the tiers' constants
daily_max_age_late == timedelta(0, 1, 30)

daily_max_age == timedelta(0, 1, -30)

weekly_max_age == timedelta(1, 0, -30)

monthly_max_age == timedelta(0, 30, -30)

max_age(t) ==
    CASE t = "daily" -> daily_max_age
      [] t = "weekly" -> weekly_max_age
      [] t = "monthly" -> monthly_max_age

retention_delta_cadence(t) ==
    CASE t = "daily" -> timedelta(0, 1, 0)
      [] t = "weekly" -> timedelta(1, 0, 0)
      [] t = "monthly" -> timedelta(0, 30, 0)

retention_delta(t) ==
    CASE t = "daily" -> timedelta(0, 4, 0)
      [] t = "weekly" -> timedelta(3, 0, 0)
      [] t = "monthly" -> timedelta(0, 60, 0)

\* ------------------------------------------------- get_new_backup_filename
\* strftime("%Y%m%d-%H%M%S"): the date (as the day's number), then the hour,
\* the minute and the second of the day.
strftime(t) ==
    <<ToString(t \div 86400), "-", ToString((t % 86400) \div 3600),
      ToString((t % 3600) \div 60), ToString(t % 60)>>

get_new_backup_filename_g(t) == <<"backup-">> \o strftime(t) \o <<"-g", None, ".tar.gz">>

get_new_backup_filename(t) == <<"backup-">> \o strftime(t) \o <<".tar.gz">>

\* A call of get_new_backup_filename with the positional arguments args: the
\* function takes none, so any argument raises TypeError.
call_get_new_backup_filename(args, t) ==
    IF Len(args) = 0
    THEN [raised |-> None, value |-> get_new_backup_filename(t)]
    ELSE [raised |-> "TypeError", value |-> <<>>]

\* ------------------------------------------------- get_minecraft_gametime
\* What rcon.sh does when asked "time query gametime".
RconStates == {"ok", "missing", "nonzero", "unparseable"}
Gametimes == {"12345"}

get_minecraft_gametime(rc, g) ==
    IF rc = "ok"
    THEN [value |-> g, warned |-> FALSE]
    ELSE [value |-> None, warned |-> TRUE]

\* -------------------------------------------------------------------- state
VARIABLES
    now,        \* datetime.datetime.now()
    ticks,      \* seconds elapsed since main() started
    files,      \* tier -> the archives in the tier's directory
    files0,     \* files when main() started
    dirState,   \* tier -> "ok" | "missing" | "unreadable"
    server,     \* minecraft-server.service: "running" | "stopped"
    rcon,       \* the control channel's condition while main() runs
    pc,         \* where main() is
    cur,        \* index in Tiers of the tier being handled
    error,      \* the exception that ended main(), or None
    decision,   \* tier -> what needs_<tier>_backup saw and returned
    calls,      \* tier -> the external steps create_backup(tier) has made
    backup_path,\* create_backup's local backup_path
    result,     \* tier -> what create_backup(tier) returned or raised
    deletion,   \* tier -> what delete_backups_older_than_delta saw and did
    fn,         \* the last direct call of get_new_backup_filename
    older,      \* the last direct call of BackupFile.is_older_than_delta
    prev        \* what the previous run of main() did, if there was one

vars == <<now, ticks, files, files0, dirState, server, rcon, pc, cur, error,
          decision, calls, backup_path, result, deletion, fn, older, prev>>

\* ------------------------------------------------------------ get_backup_files
\* glob.glob(..., root_dir=...) lists nothing, and raises nothing, for a
\* directory that does not exist or cannot be read.
get_backup_files(t) == IF dirState[t] = "ok" THEN files[t] ELSE {}

\* ------------------------------------------------------------ needs_*_backup
needs_daily_backup_late ==
    \A b \in get_backup_files("daily") : is_older_than_delta(b.mtime, now, daily_max_age_late)

needs_daily_backup ==
    \A b \in get_backup_files("daily") : is_older_than_delta(b.mtime, now, daily_max_age)

needs_weekly_backup ==
    \A b \in get_backup_files("weekly") : is_older_than_delta(b.mtime, now, weekly_max_age)

needs_monthly_backup ==
    \A b \in get_backup_files("monthly") : is_older_than_delta(b.mtime, now, monthly_max_age)

needs_backup(t) ==
    CASE t = "daily" -> needs_daily_backup
      [] t = "weekly" -> needs_weekly_backup
      [] t = "monthly" -> needs_monthly_backup

\* ---------------------------------------------------------------- initial state
\* The ages, at Now0, the initial archives of a tier are drawn from: around the
\* tolerance-adjusted cadence and around the retention window.
Ages(t) ==
    {max_age(t) - 1, max_age(t), retention_delta(t), retention_delta(t) + 1}
        \cup (IF t = "daily" THEN {timedelta(0, 1, -20)} ELSE {})

Candidates == {<<t, a>> \in TierSet \X (UNION {Ages(t) : t \in TierSet}) : a \in Ages(t)}

ArchiveAt(t) == [name |-> get_new_backup_filename(t), mtime |-> t]

\* At most one tier's directory is missing or unreadable.
DirChoices ==
    {d \in [TierSet -> {"ok", "missing", "unreadable"}] :
        Cardinality({t \in TierSet : d[t] # "ok"}) <= 1}

NoDecision == [made |-> FALSE, needs |-> FALSE, records |-> {}, at |-> 0]
NoDeletion == [done |-> FALSE, records |-> {}, at |-> 0, failed |-> {}]
NoCall == [called |-> FALSE, args |-> <<>>, at |-> 0, ret |-> [raised |-> None, value |-> <<>>]]
NoResult == [status |-> "none", path |-> <<>>]
NoOlder == [called |-> FALSE, mtime |-> 0, at |-> 0, delta |-> 0, ret |-> FALSE, negated |-> FALSE]
NoPrev == [ran |-> FALSE, ok |-> FALSE, start |-> 0, created |-> [t \in TierSet |-> {}]]

InitCommon ==
    /\ ticks = 0
    /\ cur = 1
    /\ error = None
    /\ decision = [t \in TierSet |-> NoDecision]
    /\ calls = [t \in TierSet |-> <<>>]
    /\ backup_path = <<>>
    /\ result = [t \in TierSet |-> NoResult]
    /\ deletion = [t \in TierSet |-> NoDeletion]
    /\ fn = NoCall
    /\ older = NoOlder
    /\ prev = NoPrev

InitFiles ==
    /\ \E chosen \in SUBSET Candidates :
        /\ Cardinality(chosen) <= MaxFiles
        /\ files = [t \in TierSet |-> {ArchiveAt(Now0 - c[2]) : c \in {x \in chosen : x[1] = t}}]
    /\ files0 = files

\* main() starts with the control channel working.
Init ==
    /\ InitCommon
    /\ now = Now0
    /\ InitFiles
    /\ dirState \in DirChoices
    /\ \A t \in TierSet : dirState[t] = "missing" => files[t] = {}
    /\ server \in {"running", "stopped"}
    /\ rcon = "ok"
    /\ pc = "main"

\* main() starts with the control channel in any condition, the tiers'
\* directories in place and the server up.
InitGametime ==
    /\ InitCommon
    /\ now = Now0
    /\ InitFiles
    /\ dirState = [t \in TierSet |-> "ok"]
    /\ server = "running"
    /\ rcon \in RconStates
    /\ pc = "main"

\* Direct calls of get_new_backup_filename, at MaxStamps + 1 clock readings.
InitFilename ==
    /\ InitCommon
    /\ now \in {Now0 + k * 3607 : k \in 0..MaxStamps}
    /\ files = [t \in TierSet |-> {}]
    /\ files0 = files
    /\ dirState = [t \in TierSet |-> "ok"]
    /\ server = "running"
    /\ rcon = "ok"
    /\ pc = "call"

\* ------------------------------------------------------------------ main
\* setup_logging(): logging.FileHandler raises when the logs directory is missing.
setup_logging ==
    /\ pc = "main"
    /\ \/ /\ pc' = "needs"
          /\ error' = error
       \/ /\ pc' = "failed"
          /\ error' = "logging"
    /\ UNCHANGED <<now, ticks, files, files0, dirState, server, rcon, cur,
                   decision, calls, backup_path, result, deletion, fn, older, prev>>

\* create_new_backups returning after its first tier.
NextTier_early ==
    /\ pc' = "delete"
    /\ cur' = 1

\* Where create_new_backups goes after the tier at index cur: the next tier's
\* check, or delete_old_backups.
NextTier ==
    IF cur < 3
    THEN /\ pc' = "needs"
         /\ cur' = cur + 1
    ELSE /\ pc' = "delete"
         /\ cur' = 1

\* create_new_backups with the condition inverted: `if not needs_<tier>_backup():`.
create_new_backups_inverted ==
    /\ pc = "needs"
    /\ LET t == Tiers[cur]
           needs == needs_backup(t)
       IN /\ decision' = [decision EXCEPT ![t] =
                  [made |-> TRUE, needs |-> needs, records |-> get_backup_files(t), at |-> now]]
          /\ IF ~needs
             THEN /\ pc' = "stop"
                  /\ cur' = cur
                  /\ calls' = [calls EXCEPT ![t] = <<>>]
             ELSE /\ NextTier
                  /\ UNCHANGED calls
    /\ UNCHANGED <<now, ticks, files, files0, dirState, server, rcon, error,
                   backup_path, result, deletion, fn, older, prev>>

\* create_new_backups: `if needs_<tier>_backup():`; when true, create_backup is
\* entered, otherwise "No <tier> backup needed." is logged.
create_new_backups ==
    /\ pc = "needs"
    /\ LET t == Tiers[cur]
           needs == needs_backup(t)
       IN /\ decision' = [decision EXCEPT ![t] =
                  [made |-> TRUE, needs |-> needs, records |-> get_backup_files(t), at |-> now]]
          /\ IF needs
             THEN /\ pc' = "stop"
                  /\ cur' = cur
                  /\ calls' = [calls EXCEPT ![t] = <<>>]
             ELSE /\ NextTier
                  /\ UNCHANGED calls
    /\ UNCHANGED <<now, ticks, files, files0, dirState, server, rcon, error,
                   backup_path, result, deletion, fn, older, prev>>

\* stop_minecraft_server() without check=True: a failed stop is not noticed.
stop_minecraft_server_unchecked ==
    /\ pc = "stop"
    /\ LET t == Tiers[cur]
       IN /\ calls' = [calls EXCEPT ![t] = @ \o <<"stop", "filename">>]
          /\ server' \in {server, "stopped"}
          /\ backup_path' = get_new_backup_filename(now)
          /\ pc' = "tar"
          /\ \/ error' = error
             \/ error' = "stop"
          /\ UNCHANGED result
    /\ UNCHANGED <<now, ticks, files, files0, dirState, rcon, cur, decision, deletion, fn, older, prev>>

\* create_backup, lines 127-129: stop_minecraft_server() (systemctl stop with
\* check=True), then backup_path = parent_dir / get_new_backup_filename().
stop_minecraft_server ==
    /\ pc = "stop"
    /\ LET t == Tiers[cur]
       IN \/ /\ calls' = [calls EXCEPT ![t] = @ \o <<"stop", "filename">>]
             /\ server' = "stopped"
             /\ backup_path' = get_new_backup_filename(now)
             /\ pc' = "tar"
             /\ UNCHANGED <<error, result>>
          \/ /\ calls' = [calls EXCEPT ![t] = @ \o <<"stop">>]
             /\ server' \in {server, "stopped"}
             /\ pc' = "failed"
             /\ error' = "stop"
             /\ result' = [result EXCEPT ![t] = [status |-> "raised", path |-> <<>>]]
             /\ UNCHANGED backup_path
    /\ UNCHANGED <<now, ticks, files, files0, dirState, rcon, cur, decision, deletion, fn, older, prev>>

\* The archive tar writes at backup_path, replacing a file of that name.
Written(t) ==
    {f \in files[t] : f.name # backup_path} \cup {[name |-> backup_path, mtime |-> now]}

\* run_tar with the archiving failure caught and logged by the caller, which
\* goes on with the next tier.
run_tar_caught ==
    /\ pc = "tar"
    /\ LET t == Tiers[cur]
       IN /\ calls' = [calls EXCEPT ![t] = @ \o <<"tar">>]
          /\ \/ /\ dirState[t] # "missing"
                /\ files' = [files EXCEPT ![t] = Written(t)]
                /\ pc' = "start"
                /\ UNCHANGED <<cur, error, result>>
             \/ /\ files' = files
                /\ NextTier
                /\ error' = "tar"
                /\ result' = [result EXCEPT ![t] = [status |-> "raised", path |-> <<>>]]
    /\ UNCHANGED <<now, ticks, files0, dirState, server, rcon, decision,
                   backup_path, deletion, fn, older, prev>>

\* create_backup, lines 130-133: tar -czhf backup_path /srv/minecraft/current
\* with check=True.  A failing tar may leave a partial archive behind.
run_tar ==
    /\ pc = "tar"
    /\ LET t == Tiers[cur]
       IN /\ calls' = [calls EXCEPT ![t] = @ \o <<"tar">>]
          /\ \/ /\ dirState[t] # "missing"
                /\ files' = [files EXCEPT ![t] = Written(t)]
                /\ pc' = "start"
                /\ UNCHANGED <<error, result>>
             \/ /\ \/ /\ dirState[t] # "missing"
                      /\ files' = [files EXCEPT ![t] = Written(t)]
                   \/ files' = files
                /\ pc' = "failed"
                /\ error' = "tar"
                /\ result' = [result EXCEPT ![t] = [status |-> "raised", path |-> <<>>]]
    /\ UNCHANGED <<now, ticks, files0, dirState, server, rcon, cur, decision,
                   backup_path, deletion, fn, older, prev>>

\* create_backup, lines 135-136: start_minecraft_server() (systemctl start with
\* check=True), then return BackupFile(backup_path).
start_minecraft_server ==
    /\ pc = "start"
    /\ LET t == Tiers[cur]
       IN /\ calls' = [calls EXCEPT ![t] = @ \o <<"start">>]
          /\ \/ /\ server' = "running"
                /\ result' = [result EXCEPT ![t] = [status |-> "returned", path |-> backup_path]]
                /\ NextTier
                /\ error' = error
             \/ /\ server' \in {server, "running"}
                /\ result' = [result EXCEPT ![t] = [status |-> "raised", path |-> <<>>]]
                /\ pc' = "failed"
                /\ cur' = cur
                /\ error' = "start"
    /\ UNCHANGED <<now, ticks, files, files0, dirState, rcon, decision,
                   backup_path, deletion, fn, older, prev>>

\* delete_old_backups: one call of delete_backups_older_than_delta(dir, delta).
\* Every scanned archive older than delta is unlinked, in the order glob lists
\* them; an unlink that raises ends the loop and main(), with any of the other
\* old archives already removed.
delete_backups_older_than_delta(t, delta) ==
    LET scanned == get_backup_files(t)
        old == {f \in scanned : is_older_than_delta(f.mtime, now, delta)}
    IN \/ /\ files' = [files EXCEPT ![t] = @ \ old]
          /\ deletion' = [deletion EXCEPT ![t] =
                 [done |-> TRUE, records |-> scanned, at |-> now, failed |-> {}]]
          /\ IF cur < 3
             THEN /\ pc' = "delete"
                  /\ cur' = cur + 1
             ELSE /\ pc' = "done"
                  /\ cur' = cur
          /\ error' = error
       \/ \E bad \in old : \E gone \in SUBSET (old \ {bad}) :
          /\ files' = [files EXCEPT ![t] = @ \ gone]
          /\ deletion' = [deletion EXCEPT ![t] =
                 [done |-> TRUE, records |-> scanned, at |-> now, failed |-> {bad}]]
          /\ pc' = "failed"
          /\ cur' = cur
          /\ error' = "unlink"

delete_old_backups ==
    /\ pc = "delete"
    /\ delete_backups_older_than_delta(Tiers[cur], retention_delta(Tiers[cur]))
    /\ UNCHANGED <<now, ticks, files0, dirState, server, rcon, decision, calls,
                   backup_path, result, fn, older, prev>>

\* The clock advances while main() runs.
Tick ==
    /\ pc \notin {"done", "failed"}
    /\ ticks < MaxTicks
    /\ now' = now + 1
    /\ ticks' = ticks + 1
    /\ UNCHANGED <<files, files0, dirState, server, rcon, pc, cur, error,
                   decision, calls, backup_path, result, deletion, fn, older, prev>>

Next ==
    \/ setup_logging
    \/ create_new_backups
    \/ stop_minecraft_server
    \/ run_tar
    \/ start_minecraft_server
    \/ delete_old_backups
    \/ Tick

Spec == Init /\ [][Next]_vars

SpecGametime == InitGametime /\ [][Next]_vars

\* A direct call get_new_backup_filename(*args), as the unit tests make it.
get_new_backup_filename_called ==
    /\ pc = "call"
    /\ \E args \in {<<>>, <<None>>} \cup {<<g>> : g \in Gametimes} :
        fn' = [called |-> TRUE, args |-> args, at |-> now,
               ret |-> call_get_new_backup_filename(args, now)]
    /\ pc' = "called"
    /\ UNCHANGED <<now, ticks, files, files0, dirState, server, rcon, cur, error,
                   decision, calls, backup_path, result, deletion, older, prev>>

NextFilename == get_new_backup_filename_called

SpecFilename == InitFilename /\ [][NextFilename]_vars

\* ------------------------------------------------ runs that take long
\* How long tar may take: a second less than the
\* daily tier's retention window minus its cadence, and a second more than its
\* retention window minus its tolerance-adjusted cadence.
Delays ==
    {retention_delta("daily") - timedelta(0, 1, 0) - 1,
     retention_delta("daily") - daily_max_age + 1}

\* The clock advances by a long delay, once while main() runs, before tar ends.
LongTick ==
    /\ pc = "tar"
    /\ ticks <= MaxTicks
    /\ \E d \in Delays :
        /\ now' = now + d
        /\ ticks' = ticks + d
    /\ UNCHANGED <<files, files0, dirState, server, rcon, pc, cur, error,
                   decision, calls, backup_path, result, deletion, fn, older, prev>>

\* The ages, at Now0, of a tier's initial archives where each tier is drawn on its
\* own: just recent enough for no backup to be due, exactly the retention window
\* and a second more.
TierAges(t) == {max_age(t), retention_delta(t), retention_delta(t) + 1}

\* main() starts with at most MaxPerTier archives in each tier, the directories
\* in place and the control channel working.
InitTiers ==
    /\ InitCommon
    /\ now = Now0
    /\ \E d \in SUBSET TierAges("daily") : \E w \in SUBSET TierAges("weekly") :
       \E m \in SUBSET TierAges("monthly") :
        /\ Cardinality(d) <= MaxPerTier
        /\ Cardinality(w) <= MaxPerTier
        /\ Cardinality(m) <= MaxPerTier
        /\ files = [t \in TierSet |->
               {ArchiveAt(Now0 - a) :
                   a \in CASE t = "daily" -> d [] t = "weekly" -> w [] t = "monthly" -> m}]
    /\ files0 = files
    /\ dirState = [t \in TierSet |-> "ok"]
    /\ server \in {"running", "stopped"}
    /\ rcon = "ok"
    /\ pc = "main"

NextLong ==
    \/ Next
    \/ LongTick

SpecTiers == InitTiers /\ [][NextLong]_vars

\* ------------------------------------------------------- a second run
\* How long after the first run started the scheduler starts the second one:
\* at the daily tolerance-adjusted cadence, and at and just under the weekly one.
RunGaps == {max_age("daily"), max_age("weekly") - 1, max_age("weekly")}

\* The archives the create_backup calls of the run that is ending returned.
Created(t) == {f \in files[t] : result[t].status = "returned" /\ f.name = result[t].path}

\* The scheduler starts main() a second time, after a first run that ran to
\* its end without an error.
new_run ==
    /\ pc = "done"
    /\ ~prev.ran
    /\ \E g \in RunGaps :
        /\ now - ticks + g >= now
        /\ now' = now - ticks + g
    /\ prev' = [ran |-> TRUE, ok |-> pc = "done", start |-> now - ticks,
                created |-> [t \in TierSet |-> Created(t)]]
    /\ ticks' = 0
    /\ pc' = "main"
    /\ cur' = 1
    /\ error' = None
    /\ files0' = files
    /\ decision' = [t \in TierSet |-> NoDecision]
    /\ calls' = [t \in TierSet |-> <<>>]
    /\ backup_path' = <<>>
    /\ result' = [t \in TierSet |-> NoResult]
    /\ deletion' = [t \in TierSet |-> NoDeletion]
    /\ UNCHANGED <<files, dirState, server, rcon, fn, older>>

\* The first run starts on tiers that hold no archive yet.
InitRuns ==
    /\ InitCommon
    /\ now = Now0
    /\ files = [t \in TierSet |-> {}]
    /\ files0 = files
    /\ dirState \in DirChoices
    /\ server = "running"
    /\ rcon = "ok"
    /\ pc = "main"

NextRuns ==
    \/ NextLong
    \/ new_run

SpecRuns == InitRuns /\ [][NextRuns]_vars

\* The deltas is_older_than_delta is called with directly: those of the code,
\* a second and nothing, each with either sign.
Deltas ==
    LET mags == {0, 1} \cup {max_age(t) : t \in TierSet} \cup {retention_delta(t) : t \in TierSet}
    IN mags \cup {-d : d \in mags}

\* The archives it is called on: last modified around now minus each delta.
Mtimes == {Now0 - Abs(d) + k : d \in Deltas, k \in {-1, 0, 1}}

InitOlder ==
    /\ InitCommon
    /\ now = Now0
    /\ files = [t \in TierSet |-> {}]
    /\ files0 = files
    /\ dirState = [t \in TierSet |-> "ok"]
    /\ server = "running"
    /\ rcon = "ok"
    /\ pc = "call"

\* A direct call backup.is_older_than_delta(delta), and the same call with the
\* delta negated, at one clock reading.
is_older_than_delta_called ==
    /\ pc = "call"
    /\ \E m \in Mtimes : \E d \in Deltas :
        older' = [called |-> TRUE, mtime |-> m, at |-> now, delta |-> d,
                  ret |-> is_older_than_delta(m, now, d),
                  negated |-> is_older_than_delta(m, now, -d)]
    /\ pc' = "called"
    /\ UNCHANGED <<now, ticks, files, files0, dirState, server, rcon, cur, error,
                   decision, calls, backup_path, result, deletion, fn, prev>>

NextOlder == is_older_than_delta_called

SpecOlder == InitOlder /\ [][NextOlder]_vars

\* ================================================================ properties
Contains(seq, x) == \E i \in 1..Len(seq) : seq[i] = x

\* 23h30m, 6d23h30m and 29d23h30m, in seconds.
AdjustedCadence(t) ==
    CASE t = "daily" -> 23 * 3600 + 30 * 60
      [] t = "weekly" -> 6 * 86400 + 23 * 3600 + 30 * 60
      [] t = "monthly" -> 29 * 86400 + 23 * 3600 + 30 * 60

\* 4 days, 3 weeks and 60 days, in seconds.
RetentionWindow(t) ==
    CASE t = "daily" -> 4 * 86400
      [] t = "weekly" -> 21 * 86400
      [] t = "monthly" -> 60 * 86400

\* C1: for every tier, needs_<tier>_backup returns true iff every archive the
\* scan of the tier's directory gave (all its archives, when the directory is
\* readable) was last modified strictly before the clock reading minus 23h30m /
\* 6d23h30m / 29d23h30m: true for no archives, false when some archive is at or
\* after that instant.
C1_NeedsBackupIffAllOlder ==
    \A t \in TierSet :
        decision[t].made =>
            /\ dirState[t] = "ok" => decision[t].records = files0[t]
            /\ decision[t].needs =
                  (\A b \in decision[t].records :
                      b.mtime < decision[t].at - AdjustedCadence(t))

\* C1's case: a check that answered false because of an archive exactly at the
\* threshold instant, and a check that answered true for an empty tier.
C1_Witness ==
    /\ \E t \in TierSet :
        /\ decision[t].made
        /\ dirState[t] = "ok"
        /\ ~decision[t].needs
        /\ \E b \in files0[t] : b.mtime = decision[t].at - AdjustedCadence(t)
    /\ \E t \in TierSet :
        /\ decision[t].made
        /\ dirState[t] = "ok"
        /\ files0[t] = {}
        /\ decision[t].needs

\* C2: a deletion pass over a tier unlinks only scanned archives strictly older
\* than the retention window (4 days / 3 weeks / 60 days): an archive exactly at
\* the boundary or younger stays, and a pass in which no unlink raises removes
\* every archive that is strictly older, however few are left.
C2_DeletesIffOlderThanRetention ==
    \A t \in TierSet :
        LET d == deletion[t]
            old(f) == f.mtime < d.at - RetentionWindow(t)
        IN d.done =>
            /\ dirState[t] = "ok" => files[t] \subseteq d.records
            /\ \A f \in files0[t] \ d.records : f \in files[t]
            /\ \A f \in d.records : ~old(f) => f \in files[t]
            /\ \A f \in d.failed : f \in d.records /\ old(f)
            /\ d.failed = {} => \A f \in d.records : old(f) => f \notin files[t]

\* C2's case: a finished pass that kept an archive exactly at the boundary, and
\* a finished pass that removed every archive its tier held when main() started.
C2_Witness ==
    /\ \E t \in TierSet :
        /\ deletion[t].done
        /\ deletion[t].failed = {}
        /\ \E f \in deletion[t].records :
            /\ f.mtime = deletion[t].at - RetentionWindow(t)
            /\ f \in files[t]
    /\ \E t \in TierSet :
        /\ deletion[t].done
        /\ deletion[t].failed = {}
        /\ files0[t] # {}
        /\ files0[t] \subseteq deletion[t].records
        /\ files[t] \cap files0[t] = {}

\* C3: when the archiving step of create_backup fails after a successful stop,
\* the server start has been invoked by the time create_backup raises.
C3_StartAttemptedAfterTarFailure ==
    \A t \in TierSet :
        (result[t].status = "raised" /\ Contains(calls[t], "tar") /\ error = "tar") =>
            Contains(calls[t], "start")

\* C4: when the stop command fails, main() fails with that error, tar has not
\* been invoked for the tier and the tier's directory holds what it held.
C4_StopFailureAborts ==
    error = "stop" =>
        /\ pc = "failed"
        /\ result[Tiers[cur]].status = "raised"
        /\ ~Contains(calls[Tiers[cur]], "tar")
        /\ files[Tiers[cur]] = files0[Tiers[cur]]

\* C4's case: a create_backup whose stop command failed.
C4_Witness ==
    /\ error = "stop"
    /\ calls[Tiers[cur]] = <<"stop">>

\* C5: a create_backup that returned made exactly the steps gametime query,
\* stop, filename, tar, start, in that order, and returned the new archive's path.
C5_FixedStepOrder ==
    \A t \in TierSet :
        result[t].status = "returned" =>
            /\ calls[t] = <<"gametime", "stop", "filename", "tar", "start">>
            /\ \E f \in files[t] : f.name = result[t].path

C7_FilenameFormat ==
    fn.called =>
        /\ fn.args = <<None>> =>
            /\ fn.ret.raised = None
            /\ fn.ret.value = <<"backup-">> \o strftime(fn.at) \o <<".tar.gz">>
        /\ \A g \in Gametimes : fn.args = <<g>> =>
            /\ fn.ret.raised = None
            /\ fn.ret.value = <<"backup-">> \o strftime(fn.at) \o <<"-g", g, ".tar.gz">>

\* The daily tier holds one archive, aged 23h40m when needs_daily_backup runs.
C8_Case ==
    /\ decision["daily"].made
    /\ dirState["daily"] = "ok"
    /\ \E b \in files0["daily"] :
        /\ files0["daily"] = {b}
        /\ decision["daily"].at - b.mtime = 23 * 3600 + 40 * 60

\* C8 as stated: with one daily archive aged 23h40m, needs_daily_backup
\* returns false.
C8_AsStated == C8_Case => ~decision["daily"].needs

\* C8: with one daily archive aged 23h40m, which is older than the 23h30m
\* threshold, needs_daily_backup returns true.
C8_OneArchiveAt23h40mNeedsBackup == C8_Case => decision["daily"].needs

\* C8's case: the check has run on that one archive.
C8_Witness == C8_Case /\ pc = "stop"

\* C9: an unlink that fails during the deletion pass does not fail main(), and
\* at the end of the run every other archive older than its tier's retention
\* window has been deleted.
C9_UnlinkFailureNotFatal ==
    (\E t \in TierSet : deletion[t].failed # {}) =>
        /\ pc # "failed"
        /\ pc = "done" =>
            \A t \in TierSet : \A f \in files[t] \ deletion[t].failed :
                ~(f.mtime < deletion[t].at - RetentionWindow(t))

\* C10: scanning an existing, empty directory gives no records and no error;
\* scanning a missing or unreadable directory fails main().
C10_ScanOfBadDirectoryFails ==
    \A t \in TierSet :
        decision[t].made =>
            /\ (dirState[t] = "ok" /\ files0[t] = {}) =>
                (decision[t].records = {} /\ error # "scan")
            /\ dirState[t] # "ok" => (pc = "failed" /\ error = "scan")

\* C11: is_older_than_delta gives the same answer for a delta and for its
\* negation at one clock reading, and that answer is whether the archive was
\* last modified strictly before the clock reading minus the delta's magnitude.
C11_SignInsensitive ==
    older.called =>
        /\ older.negated = older.ret
        /\ older.ret =
              (older.mtime < older.at - (IF older.delta < 0 THEN -older.delta ELSE older.delta))

\* C11's case: a call with a negative delta on an archive a second older than
\* the delta's magnitude, which answers true.
C11_Witness ==
    /\ older.called
    /\ older.delta = -(4 * 86400)
    /\ older.mtime = older.at - 4 * 86400 - 1
    /\ older.ret

\* The creation pass is over for the tier at index i: its check has been made
\* and, when a backup was due, create_backup has returned.
CreationOver(i) ==
    /\ decision[Tiers[i]].made
    /\ decision[Tiers[i]].needs => result[Tiers[i]].status = "returned"

\* C12: the tiers are checked in the order daily, weekly, monthly, each after
\* the creation pass is over for the tier before it; they are pruned in the same
\* order, and only after the creation pass is over for the monthly tier: until
\* then every archive that was there when main() started is still there.
C12_TierOrderAndPasses ==
    /\ \A i \in 2..3 : decision[Tiers[i]].made => CreationOver(i - 1)
    /\ \A i \in 1..3 : deletion[Tiers[i]].done => CreationOver(3)
    /\ \A i \in 2..3 : deletion[Tiers[i]].done =>
          (deletion[Tiers[i - 1]].done /\ deletion[Tiers[i - 1]].failed = {})
    /\ ~CreationOver(3) => \A t \in TierSet : files0[t] \subseteq files[t]

\* C12's case: a finished run that created an archive and deleted one.
C12_Witness ==
    /\ pc = "done"
    /\ \E t \in TierSet : result[t].status = "returned"
    /\ \E t \in TierSet : ~(files0[t] \subseteq files[t])

\* C13: whenever start has been invoked after a successful archive step,
\* create_backup has returned the new archive's record and main() has not failed
\* because of the start command.
C13_StartFailureNotRaised ==
    \A t \in TierSet :
        (Contains(calls[t], "tar") /\ Contains(calls[t], "start")) =>
            /\ result[t].status = "returned"
            /\ error # "start"

\* C17: when create_backup raises for a due tier, main() has failed: no later
\* tier has been checked, no deletion pass has run and every archive that was
\* there when main() started is still there.
C17_CreationFailureAborts ==
    \A i \in 1..3 :
        result[Tiers[i]].status = "raised" =>
            /\ pc = "failed"
            /\ \A j \in (i + 1)..3 : ~decision[Tiers[j]].made
            /\ \A t \in TierSet : ~deletion[t].done
            /\ \A t \in TierSet : files0[t] \subseteq files[t]

\* C17's case: the daily create_backup failed at tar while another tier
\* holds an archive past its retention window.
C17_Witness ==
    /\ result["daily"].status = "raised"
    /\ error = "tar"
    /\ \E t \in TierSet \ {"daily"} : \E f \in files[t] :
          f.mtime < now - RetentionWindow(t)

\* A step that stops or starts the server, invokes a step of create_backup or
\* adds an archive to a tier.
OrchestratorStep ==
    \/ server' # server
    \/ calls' # calls
    \/ \E t \in TierSet : ~(files'[t] \subseteq files[t])

\* C14: the server is stopped or started, tar is invoked and an archive appears
\* only inside the create_backup of a tier whose needs_backup check answered
\* true; a run in which all three checks answered false has invoked nothing and
\* created nothing; no run adds more than one archive to a tier.
C14_OrchestratorOnlyWhenDue ==
    /\ [][OrchestratorStep =>
            (pc \in {"stop", "tar", "start"} /\ decision[Tiers[cur]].made
                /\ decision[Tiers[cur]].needs)]_vars
    /\ [](\A t \in TierSet :
            /\ (calls[t] # <<>> \/ result[t].status # "none") =>
                  (decision[t].made /\ decision[t].needs)
            /\ Cardinality(files[t] \ files0[t]) <= 1)
    /\ []((\A t \in TierSet : decision[t].made /\ ~decision[t].needs) =>
            \A t \in TierSet :
                /\ calls[t] = <<>>
                /\ result[t].status = "none"
                /\ files[t] \subseteq files0[t])

\* C14's case: a finished run in which no tier was due.
C14_Witness ==
    /\ pc = "done"
    /\ \A t \in TierSet : decision[t].made /\ ~decision[t].needs
    /\ files = files0

\* 1 day, 1 week and 30 days, in seconds.
Cadence(t) ==
    CASE t = "daily" -> 86400
      [] t = "weekly" -> 7 * 86400
      [] t = "monthly" -> 30 * 86400

\* C15: in a run of main() for which less time has elapsed than a tier's
\* retention window minus its cadence, the tier's deletion pass keeps the
\* archive create_backup returned and every archive that was recent enough to
\* make needs_backup false; when such a run ends without error, the tier holds an
\* archive no older than its retention window.
C15_RecentArchiveSurvives ==
    \A t \in TierSet :
        ticks < RetentionWindow(t) - Cadence(t) =>
            /\ deletion[t].done =>
                /\ result[t].status = "returned" =>
                      \E f \in files[t] : f.name = result[t].path
                /\ \A f \in decision[t].records :
                      ~(f.mtime < decision[t].at - AdjustedCadence(t)) => f \in files[t]
            /\ pc = "done" =>
                  \E f \in files[t] : now - f.mtime <= RetentionWindow(t)

\* C15's case: a run that took a second less than three days and ended without
\* error, in which the daily tier was not due and kept its archive and another
\* tier lost every archive it started with.
C15_Witness ==
    /\ pc = "done"
    /\ ticks = 3 * 86400 - 1
    /\ ~decision["daily"].needs
    /\ files["daily"] = files0["daily"]
    /\ \E t \in TierSet : files0[t] # {} /\ files[t] \cap files0[t] = {}

\* C16 as stated: after a create_backup of a tier succeeded, a later check of
\* that tier made no more than the tolerance-adjusted cadence after the
\* archive's last-modified time answers false; and of two successful runs
\* started less than that apart, the second creates no archive in that tier.
C16_AsStated ==
    prev.ran =>
        \A t \in TierSet : \A a \in prev.created[t] :
            /\ (decision[t].made /\ decision[t].at - a.mtime <= AdjustedCadence(t)) =>
                  ~decision[t].needs
            /\ (prev.ok /\ pc = "done" /\ (now - ticks) - prev.start < AdjustedCadence(t)) =>
                  result[t].status # "returned"

\* C16: after a create_backup of a tier succeeded, a later check of that tier
\* whose scan lists the archive and that is made no more than the
\* tolerance-adjusted cadence after the archive's last-modified time answers
\* false, and that run invokes no create_backup step and adds no archive for
\* the tier; a later check whose scan lists nothing answers true however
\* recent the archive is.
C16_NoDuplicateWhileRecent ==
    prev.ran =>
        \A t \in TierSet : \A a \in prev.created[t] :
            /\ (/\ decision[t].made
                /\ a \in decision[t].records
                /\ decision[t].at - a.mtime <= AdjustedCadence(t)) =>
                   /\ ~decision[t].needs
                   /\ calls[t] = <<>>
                   /\ result[t].status = "none"
                   /\ files[t] \subseteq files0[t]
            /\ (decision[t].made /\ decision[t].records = {}) => decision[t].needs

\* C16's case: a second run that checked a tier exactly the tolerance-adjusted
\* cadence after the first run's archive was written, and ended without error.
C16_Witness ==
    /\ prev.ran
    /\ pc = "done"
    /\ \E t \in TierSet : \E a \in prev.created[t] :
        /\ decision[t].made
        /\ a \in decision[t].records
        /\ decision[t].at - a.mtime = AdjustedCadence(t)
        /\ ~decision[t].needs

====
